---- MODULE Spec2Model ----
(***************************************************************************)
(* The workflow orchestrator of src/workflow.py: the speaker selector      *)
(* (WorkflowOrchestrator.custom_speaker_selector), the group chat that     *)
(* drives it (GroupChat with max_round, created in create_group_chat and   *)
(* started by initiate_chat), the extraction of the generated files, the   *)
(* call of the test capability and the result initiate_workflow returns.   *)
(*                                                                         *)
(* A message content is a sequence of tokens; `"X" in content` of the      *)
(* source is the test that the token occurs in the sequence.               *)
(***************************************************************************)
EXTENDS Integers, Sequences, FiniteSets, TLC

VARIABLES
    messages,                \* groupchat.messages: sequence of [name, content]
    last_speaker,            \* name of the agent that spoke last
    next_agent,              \* what custom_speaker_selector returned last
    review_iteration_count,  \* self.review_iteration_count
    max_review_iterations,   \* self.max_review_iterations
    pc,                      \* position of initiate_workflow / of the chat loop
    result,                  \* the dictionary initiate_workflow returned
    runs,                    \* initiate_workflow calls made on this orchestrator
    user_request,            \* the argument of the running initiate_workflow
    progress_callback,       \* self.progress_callback: "absent" or "present"
    progress,                \* the calls the last selector call made to it
    exception,               \* the exception the running call has caught
    workspace,               \* the files, in and out of the workspace directory
    files_extracted,         \* the local files_extracted of initiate_workflow
    extract_warnings,        \* the matches whose failure the extraction logged
    test_results,            \* the local test_results of initiate_workflow
    test_calls               \* calls of run_tests_in_workspace by this call

vars == <<messages, last_speaker, next_agent, review_iteration_count,
          max_review_iterations, pc, result, runs, user_request,
          progress_callback, progress, exception, workspace, files_extracted,
          extract_warnings, test_results, test_calls>>

\* what custom_speaker_selector reads and writes
selvars == <<messages, last_speaker, next_agent, review_iteration_count,
             max_review_iterations, progress_callback, progress>>

\* the locals of initiate_workflow after the chat, and the workspace
postvars ==
    <<workspace, files_extracted, extract_warnings, test_results, test_calls>>

----------------------------------------------------------------------------
(* Bounds of the model *)

\* largest of the small revision ceilings the orchestrator is built with
MaxCeiling == 3

\* a revision ceiling above the round limit, which keeps every ceiling from 24
\* on from being reached
BigCeiling == 51

\* initiate_workflow calls on one orchestrator
MaxRuns == 2

\* the leading part of a run's transcript in which any output may carry any
\* content and any stage invocation may raise; later outputs carry a review
\* token only where the graph reads one (a stage other than Code_Reviewer
\* writes plain text, a review names at most one keyword)
NoisySpan == 4

\* longest transcript handed to the selector when it is applied on its own
MaxSelLen == 2

\* most pieces (file blocks, broken blocks, plain text) in a transcript handed
\* to the extraction when it is applied on its own
MaxPieces == 3

----------------------------------------------------------------------------
(* Program constants *)

\* GroupChat(max_round=50)
max_round == 50

\* run_workflow and the default of __init__: max_review_iterations=5
DefaultCeiling == 5

Admin_Proxy == "Admin_Proxy"
Product_Manager == "Product_Manager"
Python_Engineer == "Python_Engineer"
Code_Reviewer == "Code_Reviewer"
Tech_Writer == "Tech_Writer"
QA_Engineer == "QA_Engineer"
DevOps_Engineer == "DevOps_Engineer"
UX_Designer == "UX_Designer"

\* the eight agents of create_group_chat
Agents == {Admin_Proxy, Product_Manager, Python_Engineer, Code_Reviewer,
           Tech_Writer, QA_Engineer, DevOps_Engineer, UX_Designer}

\* a speaker whose name is none of the eight
Unknown_Agent == "Unknown_Agent"

\* the selector's `return None`
None == "None"

\* next_agent before the selector was ever called
Unset == "Unset"

FIX_REQUIRED == "FIX_REQUIRED"
APPROVED == "APPROVED"

\* message contents: plain text, each keyword alone, both keywords
Contents == {<<"text">>, <<FIX_REQUIRED>>, <<APPROVED>>, <<APPROVED, FIX_REQUIRED>>}

\* user requests: empty, whitespace only, a real request
Requests == {<<>>, <<" ">>, <<"Build", " ", "a", " ", "calculator">>}

\* the revision ceilings an orchestrator is constructed with
Ceilings == (0 .. MaxCeiling) \cup {DefaultCeiling, BigCeiling}

NoResult == [status |-> "none"]

\* the exception kinds initiate_workflow has a handler for, and one it has not
ExceptionTypes == {"TimeoutError", "ValueError", "ConnectionError", "RuntimeError"}

\* the exceptions a stage invocation raises
StageExceptions == [source : {"stage"}, type : ExceptionTypes, msg : {"boom"}]

\* the exception a progress callback raises
CallbackExceptions ==
    [source : {"callback"}, type : {"RuntimeError"}, msg : {"display failed"}]

\* the exception the test capability raises
TestExceptions ==
    [source : {"tests"}, type : {"RuntimeError"}, msg : {"pytest not found"}]

\* the exception of test_results.get in the log call behind the test call,
\* when the test capability returned None
NoValueException ==
    [source |-> "test report", type |-> "AttributeError",
     msg |-> "'NoneType' object has no attribute 'get'"]

\* no exception has been caught
NoException == [source |-> "none", type |-> "none", msg |-> "none"]

\* how a call of the progress callback ends; its return value is discarded
CallbackOutcomes == {"returns None", "returns True", "raises"}

\* no iteration argument in a call of the progress callback
NoIteration == -1

\* the file markers of the extraction pattern
BEGIN_FILE(filename) == "===BEGIN_FILE:" \o filename \o "==="
END_FILE == "===END_FILE==="

\* the names a file block carries: a plain name, a relative path with a
\* subdirectory, a relative path with a parent segment, an absolute path
\* (none holds white space, so each matches [^\s]+ and filename.strip()
\* leaves it as it is)
FileNames == {"main.py", "sub/file.py", "../evil.py", "/tmp/evil.py"}

\* a stage output of a run that holds one well-formed file block
FileContents == {<<"text", BEGIN_FILE("main.py"), "code", END_FILE>>}

\* a file that does not exist
Absent == <<"(no such file)">>

\* a file name as a path: whether it starts at the root, and its segments
ParsePath(filename) ==
    CASE filename = "main.py" -> [absolute |-> FALSE, parts |-> <<"main.py">>]
      [] filename = "sub/file.py" ->
            [absolute |-> FALSE, parts |-> <<"sub", "file.py">>]
      [] filename = "../evil.py" ->
            [absolute |-> FALSE, parts |-> <<"..", "evil.py">>]
      [] filename = "/tmp/evil.py" ->
            [absolute |-> TRUE, parts |-> <<"tmp", "evil.py">>]

\* os.path.abspath("workspace"), as segments from the root: the directory
\* "workspace" of the current directory
workspace_path == <<"cwd", "workspace">>

\* os.path.join(workspace_path, filename): an absolute filename replaces the
\* base, a relative one is appended to it as it is
JoinPath(base, filename) ==
    LET path == ParsePath(filename)
    IN IF path.absolute THEN path.parts ELSE base \o path.parts

\* the location a path names when it is opened: a parent segment steps out of
\* the directory reached so far
ResolvePath(parts) ==
    LET upto[k \in 0 .. Len(parts)] ==
            IF k = 0 THEN <<>>
            ELSE IF parts[k] = ".."
                 THEN IF upto[k - 1] = <<>> THEN <<>>
                      ELSE SubSeq(upto[k - 1], 1, Len(upto[k - 1]) - 1)
                 ELSE Append(upto[k - 1], parts[k])
    IN upto[Len(parts)]

\* the location that open(filepath, 'w') writes for a file name
filepath(filename) == ResolvePath(JoinPath(workspace_path, filename))

\* the directories that exist: os.makedirs(workspace_path, exist_ok=True)
\* makes the workspace and what is above it, the extraction makes no other
DirectoriesPresent == {<<>>, <<"cwd">>, workspace_path, <<"tmp">>}

\* open(filepath, 'w') finds the directory of the file
ParentExists(filename) ==
    LET path == JoinPath(workspace_path, filename)
    IN ResolvePath(SubSeq(path, 1, Len(path) - 1)) \in DirectoriesPresent

\* the locations the file names stand for
Locations == {filepath(f) : f \in FileNames}

\* a location lies in the workspace directory
InWorkspace(location) ==
    /\ Len(location) > Len(workspace_path)
    /\ SubSeq(location, 1, Len(workspace_path)) = workspace_path

\* test_results before the test capability was called
NoTestResults == [status |-> "None"]

\* the aggregates the test capability returns
TestAggregates ==
    {[status |-> "passed", message |-> <<>>, total_tests |-> 4, total_passed |-> 4,
      total_failed |-> 0, total_errors |-> 0],
     [status |-> "no_tests", message |-> <<>>, total_tests |-> 0, total_passed |-> 0,
      total_failed |-> 0, total_errors |-> 0]}

\* files_extracted before the extraction loop
NotExtracted == -1

----------------------------------------------------------------------------
(* custom_speaker_selector *)

\* `tok in content`
Contains(tok, content) == \E i \in DOMAIN content : content[i] = tok

\* messages[-1]["content"] if messages else ""
LastMessage(msgs) == IF msgs # <<>> THEN msgs[Len(msgs)].content ELSE <<>>

\* variant: only the last message is looked at
UxDesignerHasSpoken_LastOnly(msgs) ==
    msgs # <<>> /\ msgs[Len(msgs)].name = UX_Designer

\* any(msg.get("name") == "UX_Designer" for msg in messages)
UxDesignerHasSpoken(msgs) == \E i \in DOMAIN msgs : msgs[i].name = UX_Designer

\* State 1 and State 9: the branch of Admin_Proxy
AdminBranch(msgs) == IF ~UxDesignerHasSpoken(msgs) THEN Product_Manager ELSE None

\* variant: the ceiling is compared with > instead of >=
ReviewDecision_OffByOne(last_message, count, ceiling) ==
    IF Contains(FIX_REQUIRED, last_message)
    THEN IF count + 1 > ceiling
         THEN [next |-> Tech_Writer, count |-> count + 1]
         ELSE [next |-> Python_Engineer, count |-> count + 1]
    ELSE [next |-> Tech_Writer, count |-> count]

\* variant: the ceiling is never looked at
ReviewDecision_NoForce(last_message, count, ceiling) ==
    IF Contains(FIX_REQUIRED, last_message)
    THEN [next |-> Python_Engineer, count |-> count + 1]
    ELSE [next |-> Tech_Writer, count |-> count]

\* variant: an approval resets the counter
ReviewDecision_ResetOnApproval(last_message, count, ceiling) ==
    IF Contains(FIX_REQUIRED, last_message)
    THEN IF count + 1 >= ceiling
         THEN [next |-> Tech_Writer, count |-> count + 1]
         ELSE [next |-> Python_Engineer, count |-> count + 1]
    ELSE IF Contains(APPROVED, last_message)
         THEN [next |-> Tech_Writer, count |-> 0]
         ELSE [next |-> Tech_Writer, count |-> count]

\* variant: a review without keyword sends the engineer back (fail closed)
ReviewDecision_FailClosed(last_message, count, ceiling) ==
    IF Contains(FIX_REQUIRED, last_message)
    THEN IF count + 1 >= ceiling
         THEN [next |-> Tech_Writer, count |-> count + 1]
         ELSE [next |-> Python_Engineer, count |-> count + 1]
    ELSE IF Contains(APPROVED, last_message)
         THEN [next |-> Tech_Writer, count |-> count]
         ELSE [next |-> Python_Engineer, count |-> count]

\* variant: the approval keyword is looked for first
ReviewDecision_ApprovedFirst(last_message, count, ceiling) ==
    IF Contains(APPROVED, last_message)
    THEN [next |-> Tech_Writer, count |-> count]
    ELSE IF Contains(FIX_REQUIRED, last_message)
    THEN IF count + 1 >= ceiling
         THEN [next |-> Tech_Writer, count |-> count + 1]
         ELSE [next |-> Python_Engineer, count |-> count + 1]
    ELSE [next |-> Tech_Writer, count |-> count]

\* State 4: the decision after Code_Reviewer; the next agent and the counter
ReviewDecision(last_message, count, ceiling) ==
    IF Contains(FIX_REQUIRED, last_message)
    THEN IF count + 1 >= ceiling
         THEN [next |-> Tech_Writer, count |-> count + 1]
         ELSE [next |-> Python_Engineer, count |-> count + 1]
    ELSE IF Contains(APPROVED, last_message)
         THEN [next |-> Tech_Writer, count |-> count]
         ELSE [next |-> Tech_Writer, count |-> count]

\* variant: the engineer's output goes to Tech_Writer without review
LinearNext_SkipReview(name) ==
    CASE name = Python_Engineer -> Tech_Writer
      [] name = Tech_Writer -> QA_Engineer
      [] name = QA_Engineer -> DevOps_Engineer
      [] name = DevOps_Engineer -> UX_Designer
      [] OTHER -> None

\* variant: after UX_Designer the graph starts over
LinearNext_Restart(name) ==
    CASE name = Python_Engineer -> Code_Reviewer
      [] name = Tech_Writer -> QA_Engineer
      [] name = QA_Engineer -> DevOps_Engineer
      [] name = DevOps_Engineer -> UX_Designer
      [] name = UX_Designer -> Product_Manager
      [] OTHER -> None

\* variant: an unknown speaker falls through to the first stage
LinearNext_UnknownContinues(name) ==
    CASE name = Python_Engineer -> Code_Reviewer
      [] name = Tech_Writer -> QA_Engineer
      [] name = QA_Engineer -> DevOps_Engineer
      [] name = DevOps_Engineer -> UX_Designer
      [] name = UX_Designer -> None
      [] OTHER -> Product_Manager

\* variant: Tech_Writer hands over to DevOps_Engineer, skipping QA_Engineer
LinearNext_SkipQA(name) ==
    CASE name = Python_Engineer -> Code_Reviewer
      [] name = Tech_Writer -> DevOps_Engineer
      [] name = QA_Engineer -> DevOps_Engineer
      [] name = DevOps_Engineer -> UX_Designer
      [] name = UX_Designer -> None
      [] OTHER -> None

\* States 5..8 and the unknown speaker: the linear part of the graph
LinearNext(name) ==
    CASE name = Python_Engineer -> Code_Reviewer
      [] name = Tech_Writer -> QA_Engineer
      [] name = QA_Engineer -> DevOps_Engineer
      [] name = DevOps_Engineer -> UX_Designer
      [] name = UX_Designer -> None
      [] OTHER -> None

\* variant: the counter is not reset on Product_Manager -> Python_Engineer
custom_speaker_selector_NoReset(name, msgs, count, ceiling) ==
    IF name = Admin_Proxy
    THEN [next |-> AdminBranch(msgs), count |-> count]
    ELSE IF name = Product_Manager
    THEN [next |-> Python_Engineer, count |-> count]
    ELSE IF name = Code_Reviewer
    THEN ReviewDecision(LastMessage(msgs), count, ceiling)
    ELSE [next |-> LinearNext(name), count |-> count]

\* the selector as a function of (last speaker, transcript, counter, ceiling):
\* the agent it returns and the counter it leaves
custom_speaker_selector(name, msgs, count, ceiling) ==
    IF name = Admin_Proxy
    THEN [next |-> AdminBranch(msgs), count |-> count]
    ELSE IF name = Product_Manager
    THEN [next |-> Python_Engineer, count |-> 0]
    ELSE IF name = Code_Reviewer
    THEN ReviewDecision(LastMessage(msgs), count, ceiling)
    ELSE [next |-> LinearNext(name), count |-> count]

\* the call a branch of the selector makes to a progress callback: none or one
ProgressCall(name, msgs, count, ceiling) ==
    LET call(agent, action, iteration) ==
            <<[agent |-> agent, action |-> action, iteration |-> iteration]>>
    IN CASE name = Admin_Proxy ->
              IF ~UxDesignerHasSpoken(msgs)
              THEN call("product_manager", "analyzing", NoIteration) ELSE <<>>
         [] name = Product_Manager -> call("python_engineer", "coding", NoIteration)
         [] name = Python_Engineer -> call("code_reviewer", "reviewing", NoIteration)
         [] name = Code_Reviewer ->
              IF Contains(FIX_REQUIRED, LastMessage(msgs))
              THEN IF count + 1 >= ceiling
                   THEN <<>>
                   ELSE call("python_engineer", "fixing", count + 1)
              ELSE IF Contains(APPROVED, LastMessage(msgs))
                   THEN call("tech_writer", "documenting", NoIteration)
                   ELSE <<>>
         [] name = Tech_Writer -> call("qa_engineer", "testing", NoIteration)
         [] name = QA_Engineer -> call("devops_engineer", "deploying", NoIteration)
         [] name = DevOps_Engineer -> call("ux_designer", "designing", NoIteration)
         [] name = UX_Designer -> call("complete", "done", NoIteration)
         [] OTHER -> <<>>

\* variant: the selector branches on what the callback returns
selector_call_UsesReturn(name, msgs, count, ceiling, callback, outcome) ==
    LET sel == custom_speaker_selector(name, msgs, count, ceiling)
        calls == IF callback = "present"
                 THEN ProgressCall(name, msgs, count, ceiling) ELSE <<>>
    IN IF calls # <<>> /\ outcome = "raises"
       THEN [returned |-> FALSE, next |-> None, count |-> sel.count, calls |-> calls]
       ELSE IF calls # <<>> /\ outcome = "returns True"
       THEN [returned |-> TRUE, next |-> None, count |-> sel.count, calls |-> calls]
       ELSE [returned |-> TRUE, next |-> sel.next, count |-> sel.count,
             calls |-> calls]

\* one call of the selector on an orchestrator whose progress callback is
\* `callback` and whose call of it, if any, ends as `outcome`: whether the
\* selector returns, the agent it returns, the counter it leaves, the calls of
\* the callback. The counter is written before the callback is called.
selector_call(name, msgs, count, ceiling, callback, outcome) ==
    LET sel == custom_speaker_selector(name, msgs, count, ceiling)
        calls == IF callback = "present"
                 THEN ProgressCall(name, msgs, count, ceiling) ELSE <<>>
    IN IF calls # <<>> /\ outcome = "raises"
       THEN [returned |-> FALSE, next |-> None, count |-> sel.count, calls |-> calls]
       ELSE [returned |-> TRUE, next |-> sel.next, count |-> sel.count,
             calls |-> calls]

----------------------------------------------------------------------------
(* the extraction of the file blocks *)

Min(S) == CHOOSE x \in S : \A y \in S : x <= y
Max(S) == CHOOSE x \in S : \A y \in S : x >= y

\* a line that matches ===BEGIN_FILE:([^\s]+)===
IsBeginFile(line) == \E f \in FileNames : line = BEGIN_FILE(f)

\* group 1 of the pattern
FileNameOf(line) == CHOOSE f \in FileNames : line = BEGIN_FILE(f)

\* re.findall(file_pattern, content, re.DOTALL) on the lines of content, from
\* line p on: a match runs from a begin marker to the first end marker that
\* leaves at least one line between them, and the search goes on behind it
RECURSIVE FindAll(_, _)
FindAll(content, p) ==
    LET begins == {i \in p .. Len(content) : IsBeginFile(content[i])}
    IN IF begins = {} THEN <<>>
       ELSE LET i == Min(begins)
                ends == {j \in (i + 2) .. Len(content) : content[j] = END_FILE}
            IN IF ends = {} THEN FindAll(content, i + 1)
               ELSE <<[filename |-> FileNameOf(content[i]),
                       file_content |-> SubSeq(content, i + 1, Min(ends) - 1)]>>
                    \o FindAll(content, Min(ends) + 1)

\* a line that str.strip() removes as a whole
IsBlankLine(line) == line \in {"", " "}

\* what str.strip() leaves of the first line of a text
Lstrip(line) ==
    CASE line = "    return 1" -> "return 1"
      [] line = "    def f():" -> "def f():"
      [] OTHER -> line

\* file_content.strip(): the blank lines at both ends go, and so does the
\* indentation of the first line that stays (no line of the vocabulary ends
\* with white space)
Strip(body) ==
    LET solid == {i \in DOMAIN body : ~IsBlankLine(body[i])}
    IN IF solid = {} THEN <<>>
       ELSE LET core == SubSeq(body, Min(solid), Max(solid))
            IN [core EXCEPT ![1] = Lstrip(core[1])]

\* the matches of all messages, in the order the loops visit them: upto[k]
\* is what the first k messages hold
AllMatches(msgs) ==
    LET upto[k \in 0 .. Len(msgs)] ==
            IF k = 0 THEN <<>>
            ELSE upto[k - 1] \o FindAll(msgs[k].content, 1)
    IN upto[Len(msgs)]

\* the matches whose write raises: open does not find the directory of the
\* file, or the write is one of those in `failed`, which raise for a reason of
\* their own; open is taken to raise before it touches the file
Raises(matches, failed) ==
    {k \in 1 .. Len(matches) :
        k \in failed \/ ~ParentExists(matches[k].filename)}

\* variant: the first write that raises ends the extraction
Written_StopsAtFailure(matches, failed) ==
    {k \in 1 .. Len(matches) : \A j \in 1 .. k : j \notin Raises(matches, failed)}

\* the matches whose file is written and counted: each match is handled in a
\* try block of its own
Written(matches, failed) ==
    {k \in 1 .. Len(matches) : k \notin Raises(matches, failed)}

\* variant: a file that exists is left as it is
WriteFile_KeepsFirst(ws, location, content) ==
    IF ws[location] # Absent THEN ws ELSE [ws EXCEPT ![location] = content]

\* variant: the file is opened for appending
WriteFile_Appends(ws, location, content) ==
    [ws EXCEPT ![location] = IF @ = Absent THEN content ELSE @ \o content]

\* open(filepath, 'w') and f.write(file_content): the file is created or
\* replaced as a whole
WriteFile(ws, location, content) == [ws EXCEPT ![location] = content]

\* the files after the first k matches were handled; a write that raises is
\* logged and leaves the files as they are
RECURSIVE WriteAll(_, _, _, _)
WriteAll(ws, matches, k, failed) ==
    IF k = 0 THEN ws
    ELSE LET before == WriteAll(ws, matches, k - 1, failed)
         IN IF k \notin Written(matches, failed) THEN before
            ELSE WriteFile(before, filepath(matches[k].filename),
                           Strip(matches[k].file_content))

----------------------------------------------------------------------------
(* initiate_workflow and the group chat *)

\* variant: the early return reports the counter
EmptyRequestResult_ReportsCounter(count) ==
    [status |-> "error", error |-> <<"User request cannot be empty">>,
     review_iterations |-> count]

\* the result of the early return on an empty request
EmptyRequestResult(count) ==
    [status |-> "error", error |-> <<"User request cannot be empty">>,
     review_iterations |-> 0]

\* variant: the last handler records the type name alone
ErrorString_NoMessage(e) ==
    CASE e.type = "TimeoutError" -> <<"Workflow timed out: ", e.msg>>
      [] e.type = "ValueError" -> <<"Configuration error: ", e.msg>>
      [] e.type = "ConnectionError" ->
            <<"Connection error: ", e.msg, ". Please check your internet connection.">>
      [] OTHER -> <<e.type>>

\* the error string of the handler that catches e
ErrorString(e) ==
    CASE e.type = "TimeoutError" -> <<"Workflow timed out: ", e.msg>>
      [] e.type = "ValueError" -> <<"Configuration error: ", e.msg>>
      [] e.type = "ConnectionError" ->
            <<"Connection error: ", e.msg, ". Please check your internet connection.">>
      [] OTHER -> <<e.type, ": ", e.msg>>

\* the result a handler of initiate_workflow returns
ErrorResult(e, count) ==
    [status |-> "error", error |-> ErrorString(e), review_iterations |-> count]

\* variant: a failing test capability is reported without its reason
TestFailureAggregate_NoReason(e) ==
    [status |-> "error", message |-> <<"Failed to execute tests">>,
     total_tests |-> 0, total_passed |-> 0, total_failed |-> 0, total_errors |-> 0,
     test_results |-> <<>>]

\* test_results when the test capability raised e
TestFailureAggregate(e) ==
    [status |-> "error", message |-> <<"Failed to execute tests: ", e.msg>>,
     total_tests |-> 0, total_passed |-> 0, total_failed |-> 0, total_errors |-> 0,
     test_results |-> <<>>]

\* not user_request or not user_request.strip()
IsBlank(request) == \A i \in DOMAIN request : request[i] = " "

\* an output that carries a review token where the graph expects none
IsNoise(m) ==
    IF m.name = Code_Reviewer
    THEN Contains(FIX_REQUIRED, m.content) /\ Contains(APPROVED, m.content)
    ELSE m.name # Admin_Proxy /\ m.content # <<"text">>

\* what a stage other than Code_Reviewer answers: plain text, or text that
\* names the rework keyword
StageContents == {<<"text">>, <<FIX_REQUIRED>>}

\* the contents the agent `name` may answer as message number n of a run
ReplyContents(name, n) ==
    {c \in IF name = Code_Reviewer THEN Contents
           ELSE IF name = Python_Engineer THEN {<<"text">>} \cup FileContents
           ELSE StageContents :
        n > NoisySpan => ~IsNoise([name |-> name, content |-> c])}

\* the exceptions the invocation that is to give message number n may raise
ReplyExceptions(n) == IF n > NoisySpan THEN {} ELSE StageExceptions

\* variant: the chat loop stops after three messages
RoundCapReached_Early(msgs) == Len(msgs) >= 3

\* variant: the chat loop never stops on the number of messages
RoundCapReached_Never(msgs) == FALSE

\* the chat loop stops after max_round messages without asking the selector
RoundCapReached(msgs) == Len(msgs) >= max_round

\* the state after construction: WorkflowOrchestrator.__init__
Init ==
    /\ messages = <<>>
    /\ last_speaker = Admin_Proxy
    /\ next_agent = Unset
    /\ review_iteration_count = 0
    /\ max_review_iterations \in Ceilings
    /\ progress_callback \in {"absent", "present"}
    /\ progress = <<>>
    /\ pc = "idle"
    /\ result = NoResult
    /\ runs = 0
    /\ user_request = <<>>
    /\ exception = NoException
    /\ workspace = [location \in Locations |-> Absent]
    /\ files_extracted = NotExtracted
    /\ extract_warnings = {}
    /\ test_results = NoTestResults
    /\ test_calls = 0

\* initiate_workflow is called: validation, a new group chat, and the request
\* as the first message, said by Admin_Proxy
InitiateWorkflow ==
    /\ pc \in {"idle", "returned"}
    /\ runs < MaxRuns
    /\ runs' = runs + 1
    /\ \E request \in Requests :
          /\ user_request' = request
          /\ IF IsBlank(request)
             THEN /\ result' = EmptyRequestResult(review_iteration_count)
                  /\ pc' = "returned"
                  /\ UNCHANGED <<messages, last_speaker, next_agent>>
             ELSE /\ messages' = <<[name |-> Admin_Proxy, content |-> request]>>
                  /\ last_speaker' = Admin_Proxy
                  /\ next_agent' = Unset
                  /\ result' = NoResult
                  /\ pc' = IF RoundCapReached(messages') THEN "extract" ELSE "select"
    /\ progress' = <<>>
    /\ exception' = NoException
    /\ files_extracted' = NotExtracted
    /\ extract_warnings' = {}
    /\ test_results' = NoTestResults
    /\ test_calls' = 0
    /\ UNCHANGED <<review_iteration_count, max_review_iterations,
                   progress_callback, workspace>>

\* the chat asks the selector for the next speaker; None ends the chat, and an
\* exception of the progress callback leaves the selector, the chat and the
\* try block of initiate_workflow, whose handler returns an error result
SelectSpeaker ==
    /\ pc = "select"
    /\ \E outcome \in CallbackOutcomes :
          LET sel == selector_call(last_speaker, messages, review_iteration_count,
                         max_review_iterations, progress_callback, outcome)
          IN /\ review_iteration_count' = sel.count
             /\ progress' = sel.calls
             /\ IF sel.returned
                THEN /\ next_agent' = sel.next
                     /\ pc' = IF sel.next = None THEN "extract" ELSE "reply"
                     /\ UNCHANGED <<result, exception>>
                ELSE \E e \in CallbackExceptions :
                        /\ exception' = e
                        /\ result' = ErrorResult(e, sel.count)
                        /\ pc' = "returned"
                        /\ UNCHANGED next_agent
    /\ UNCHANGED <<messages, last_speaker, max_review_iterations, runs,
                   user_request, progress_callback, postvars>>

\* the selected agent is invoked: its reply is appended under its name, or it
\* raises and a handler of initiate_workflow returns an error result
Reply ==
    /\ pc = "reply"
    /\ \/ /\ \E c \in ReplyContents(next_agent, Len(messages) + 1) :
                messages' = Append(messages, [name |-> next_agent, content |-> c])
          /\ last_speaker' = next_agent
          /\ pc' = IF RoundCapReached(messages') THEN "extract" ELSE "select"
          /\ UNCHANGED <<result, exception>>
       \/ /\ \E e \in ReplyExceptions(Len(messages) + 1) :
                /\ exception' = e
                /\ result' = ErrorResult(e, review_iteration_count)
          /\ pc' = "returned"
          /\ UNCHANGED <<messages, last_speaker>>
    /\ UNCHANGED <<next_agent, review_iteration_count, max_review_iterations,
                   runs, user_request, progress_callback, progress, postvars>>

\* the chat is over: the file blocks of every message are written to the
\* workspace; a write that raises is logged and the loop goes on
Extract ==
    /\ pc = "extract"
    /\ \E matches \in {AllMatches(messages)} :
          \E failed \in SUBSET Written(matches, {}) :
             /\ workspace' = WriteAll(workspace, matches, Len(matches), failed)
             /\ files_extracted' = Cardinality(Written(matches, failed))
             /\ extract_warnings' = Raises(matches, failed)
    /\ pc' = "test"
    /\ UNCHANGED <<messages, last_speaker, next_agent, review_iteration_count,
                   max_review_iterations, result, runs, user_request,
                   progress_callback, progress, exception, test_results,
                   test_calls>>

\* variant: a failing call of run_tests_in_workspace is repeated once
RunTests_Retries ==
    /\ pc = "test"
    /\ test_calls' = test_calls + 1
    /\ \/ /\ test_results' \in TestAggregates
          /\ pc' = "assemble"
          /\ UNCHANGED exception
       \/ \E e \in TestExceptions \cup {NoValueException} :
             /\ test_results' = TestFailureAggregate(e)
             /\ exception' = e
             /\ pc' = IF test_calls = 0 THEN "test" ELSE "assemble"
    /\ UNCHANGED <<messages, last_speaker, next_agent, review_iteration_count,
                   max_review_iterations, result, runs, user_request,
                   progress_callback, progress, workspace, files_extracted,
                   extract_warnings>>

\* variant: a test capability that returns None is taken at its word
RunTests_KeepsNone ==
    /\ pc = "test"
    /\ test_calls' = test_calls + 1
    /\ \/ /\ test_results' \in TestAggregates
          /\ UNCHANGED exception
       \/ \E e \in TestExceptions :
             /\ test_results' = TestFailureAggregate(e)
             /\ exception' = e
       \/ /\ test_results' = NoTestResults
          /\ exception' = NoValueException
    /\ pc' = "assemble"
    /\ UNCHANGED <<messages, last_speaker, next_agent, review_iteration_count,
                   max_review_iterations, result, runs, user_request,
                   progress_callback, progress, workspace, files_extracted,
                   extract_warnings>>

\* run_tests_in_workspace is called. If it raises, the exception is caught and
\* test_results tells so; if it returns None, the log call behind it raises
\* AttributeError on test_results.get, which is caught in the same way
RunTests ==
    /\ pc = "test"
    /\ test_calls' = test_calls + 1
    /\ \/ /\ test_results' \in TestAggregates
          /\ UNCHANGED exception
       \/ \E e \in TestExceptions :
             /\ test_results' = TestFailureAggregate(e)
             /\ exception' = e
       \/ \E e \in {NoValueException} :
             /\ test_results' = TestFailureAggregate(e)
             /\ exception' = e
    /\ pc' = "assemble"
    /\ UNCHANGED <<messages, last_speaker, next_agent, review_iteration_count,
                   max_review_iterations, result, runs, user_request,
                   progress_callback, progress, workspace, files_extracted,
                   extract_warnings>>

\* variant: a run that extracted no file is reported as an error
Complete_RejectsEmpty ==
    /\ pc = "assemble"
    /\ result' = IF files_extracted = 0
                 THEN [status |-> "error", error |-> <<"no files">>,
                       review_iterations |-> review_iteration_count]
                 ELSE [status |-> "success",
                       total_messages |-> Len(messages),
                       review_iterations |-> review_iteration_count,
                       files_extracted |-> files_extracted,
                       messages |-> messages,
                       test_results |-> test_results]
    /\ pc' = "returned"
    /\ UNCHANGED <<messages, last_speaker, next_agent, review_iteration_count,
                   max_review_iterations, runs, user_request, progress_callback,
                   progress, exception, postvars>>

\* initiate_workflow assembles and returns the result
Complete ==
    /\ pc = "assemble"
    /\ result' = [status |-> "success",
                  total_messages |-> Len(messages),
                  review_iterations |-> review_iteration_count,
                  files_extracted |-> files_extracted,
                  messages |-> messages,
                  test_results |-> test_results]
    /\ pc' = "returned"
    /\ UNCHANGED <<messages, last_speaker, next_agent, review_iteration_count,
                   max_review_iterations, runs, user_request, progress_callback,
                   progress, exception, postvars>>

Next == InitiateWorkflow \/ SelectSpeaker \/ Reply \/ Extract \/ RunTests \/ Complete

Spec == Init /\ [][Next]_vars

\* the chat is synchronous: once started, each step of a run is taken
RunStep == SelectSpeaker \/ Reply \/ Extract \/ RunTests \/ Complete

FairSpec == Spec /\ WF_vars(RunStep)

----------------------------------------------------------------------------
(* Runs that an external interrupt may end *)

\* a KeyboardInterrupt, which carries no message
Interrupted == [source |-> "interrupt", type |-> "KeyboardInterrupt", msg |-> ""]

\* variant: the handler reports no iterations
InterruptResult_NoCounter(count) ==
    [status |-> "error", error |-> <<"Workflow was interrupted by user">>,
     review_iterations |-> 0]

\* the result of the handler of KeyboardInterrupt
InterruptResult(count) ==
    [status |-> "error", error |-> <<"Workflow was interrupted by user">>,
     review_iterations |-> count]

\* the interrupt is raised somewhere in the try block behind the validation:
\* in the selector, before or behind its write of the counter, in a stage
\* invocation, in the extraction loop behind any number of its writes, in the
\* test call or behind it; the handler returns an error result
Interrupt ==
    /\ pc \in {"select", "reply", "extract", "test", "assemble"}
    /\ exception' = Interrupted
    /\ IF pc = "select"
       THEN review_iteration_count' \in
               {review_iteration_count,
                custom_speaker_selector(last_speaker, messages,
                    review_iteration_count, max_review_iterations).count}
       ELSE UNCHANGED review_iteration_count
    /\ IF pc = "extract"
       THEN \E matches \in {AllMatches(messages)} :
               \E k \in 0 .. Len(matches) :
                  /\ workspace' = WriteAll(workspace, matches, k, {})
                  /\ files_extracted' =
                        Cardinality({j \in Written(matches, {}) : j <= k})
                  /\ extract_warnings' =
                        {j \in Raises(matches, {}) : j <= k}
       ELSE UNCHANGED <<workspace, files_extracted, extract_warnings>>
    /\ result' = InterruptResult(review_iteration_count')
    /\ pc' = "returned"
    /\ UNCHANGED <<messages, last_speaker, next_agent, max_review_iterations,
                   runs, user_request, progress_callback, progress,
                   test_results, test_calls>>

\* an orchestrator as run_workflow constructs it
IntInit == Init /\ max_review_iterations = DefaultCeiling

IntNext == Next \/ Interrupt

IntSpec == IntInit /\ [][IntNext]_vars

----------------------------------------------------------------------------
(* The selector applied on its own to arbitrary inputs *)

SelNames == {Admin_Proxy, Code_Reviewer, UX_Designer}

SelMessages ==
    UNION {[1 .. n -> [name : SelNames, content : Contents]] : n \in 0 .. MaxSelLen}

SelInit ==
    /\ messages \in SelMessages
    /\ last_speaker \in Agents \cup {Unknown_Agent}
    /\ next_agent = Unset
    /\ review_iteration_count \in 0 .. MaxCeiling + 1
    /\ max_review_iterations \in 0 .. MaxCeiling
    /\ progress_callback \in {"absent", "present"}
    /\ progress = <<>>
    /\ pc = "select"
    /\ result = NoResult
    /\ runs = 1
    /\ user_request = <<"Build">>
    /\ exception = NoException
    /\ workspace = [location \in Locations |-> Absent]
    /\ files_extracted = NotExtracted
    /\ extract_warnings = {}
    /\ test_results = NoTestResults
    /\ test_calls = 0

SelNext == SelectSpeaker

SelSpec == SelInit /\ [][SelNext]_vars

----------------------------------------------------------------------------
(* The extraction applied on its own to arbitrary transcripts *)

\* a body that needs no stripping
PlainBody == <<"code">>

\* a body with a blank line at each end and indented lines between them
IndentedBody == <<"", "    def f():", "        return 1", "">>

\* a file block as the delimiter format writes it: the markers on lines of
\* their own around the body
Block(filename, body) == <<BEGIN_FILE(filename)>> \o body \o <<END_FILE>>

\* a block whose end marker is missing
UnterminatedBlock == <<BEGIN_FILE("main.py"), "junk">>

\* a block with nothing between its markers
EmptyBlock == Block("main.py", <<>>)

\* what a stage output is made of
Pieces ==
    {<<"text">>, UnterminatedBlock, EmptyBlock,
     Block("main.py", PlainBody), Block("main.py", IndentedBody),
     Block("sub/file.py", PlainBody), Block("../evil.py", PlainBody),
     Block("/tmp/evil.py", PlainBody)}

\* the stage outputs made of the pieces ps, a new output starting after each
\* piece whose number is in cuts
OutputsOf(ps, cuts) ==
    LET upto[k \in 1 .. Len(ps)] ==
            IF k = 1 THEN <<ps[1]>>
            ELSE IF k - 1 \in cuts THEN Append(upto[k - 1], ps[k])
                 ELSE [upto[k - 1] EXCEPT ![Len(upto[k - 1])] = @ \o ps[k]]
    IN upto[Len(ps)]

\* the transcript they make
ExtTranscript(ps, cuts) ==
    LET outputs == OutputsOf(ps, cuts)
    IN [i \in DOMAIN outputs |-> [name |-> Python_Engineer, content |-> outputs[i]]]

\* a transcript of up to MaxPieces pieces, in any split into stage outputs
ExtInit ==
    /\ \E n \in 1 .. MaxPieces :
          \E ps \in [1 .. n -> Pieces] :
             \E cuts \in SUBSET (1 .. n - 1) :
                messages = ExtTranscript(ps, cuts)
    /\ last_speaker = Python_Engineer
    /\ next_agent = None
    /\ review_iteration_count = 0
    /\ max_review_iterations = DefaultCeiling
    /\ progress_callback = "absent"
    /\ progress = <<>>
    /\ pc = "extract"
    /\ result = NoResult
    /\ runs = 1
    /\ user_request = <<"Build">>
    /\ exception = NoException
    /\ workspace = [location \in Locations |-> Absent]
    /\ files_extracted = NotExtracted
    /\ extract_warnings = {}
    /\ test_results = NoTestResults
    /\ test_calls = 0

ExtNext == Extract

ExtSpec == ExtInit /\ [][ExtNext]_vars

\* the extraction loop runs once more over the transcript it has handled, on
\* the files it left, in the same surroundings: the writes that raised for a
\* reason of their own raise again
ExtractAgain ==
    /\ pc = "test"
    /\ \E matches \in {AllMatches(messages)} :
          \E failed \in {extract_warnings \cap Written(matches, {})} :
             /\ workspace' = WriteAll(workspace, matches, Len(matches), failed)
             /\ files_extracted' = Cardinality(Written(matches, failed))
             /\ extract_warnings' = Raises(matches, failed)
    /\ pc' = "extracted twice"
    /\ UNCHANGED <<messages, last_speaker, next_agent, review_iteration_count,
                   max_review_iterations, result, runs, user_request,
                   progress_callback, progress, exception, test_results,
                   test_calls>>

TwiceNext == Extract \/ ExtractAgain

TwiceSpec == ExtInit /\ [][TwiceNext]_vars

----------------------------------------------------------------------------
(* Vocabulary of the properties *)

\* the reviews among the first i messages
Reviews(msgs, i) == Cardinality({j \in 1 .. i : msgs[j].name = Code_Reviewer})

\* the reviews among the first i messages that name FIX_REQUIRED
ReworkReviews(msgs, i) ==
    Cardinality({j \in 1 .. i : /\ msgs[j].name = Code_Reviewer
                                /\ Contains(FIX_REQUIRED, msgs[j].content)})

\* every review among the first i messages names FIX_REQUIRED
AllRework(msgs, i) == ReworkReviews(msgs, i) = Reviews(msgs, i)

\* the selector has been asked about message i of the running transcript
Decided(i) == i < Len(messages) \/ (i = Len(messages) /\ pc = "reply")

\* the agent the selector chose after message i
ChosenAfter(i) == IF i < Len(messages) THEN messages[i + 1].name ELSE next_agent

\* the chat is over
ChatOver == pc \in {"extract", "test", "assemble", "returned"}

\* the chat is under way
InChat == pc \in {"select", "reply"}

\* the longest transcript the graph produces under ceiling n
MaxTranscript(n) == 2 * (IF n < 1 THEN 1 ELSE n) + 6

\* initiate_workflow has returned: a success result unless a stage invocation
\* or the progress callback raised, and then after a chat that the selector
\* ended wherever the ceiling leaves room under the round limit
RunReturned ==
    /\ pc = "returned"
    /\ exception.source \in {"stage", "callback"} \/ result.status = "success"
    /\ (result.status = "success" /\ MaxTranscript(max_review_iterations) < max_round)
          => next_agent = None

\* the selector has been applied and has returned
Selected == pc \in {"reply", "extract"}

\* a step in which the selector returns
SelectorReturns == pc = "select" /\ pc' \in {"reply", "extract"}

----------------------------------------------------------------------------
(* Properties *)

\* C1: with a ceiling N >= 1 and every review so far naming FIX_REQUIRED, the
\* selector answers the k-th review with Python_Engineer while k < N and with
\* Tech_Writer when k = N; there is no review beyond the N-th.
C1_ReworkLoopCeiling ==
    max_review_iterations >= 1 =>
        \A i \in DOMAIN messages :
            (messages[i].name = Code_Reviewer /\ AllRework(messages, i)) =>
                /\ Reviews(messages, i) <= max_review_iterations
                /\ Decided(i) =>
                      ChosenAfter(i) =
                          IF Reviews(messages, i) < max_review_iterations
                          THEN Python_Engineer ELSE Tech_Writer

\* C1 witness: under a ceiling N >= 2 the N-th rework review in a row has been
\* answered with Tech_Writer.
C1_Witness ==
    /\ max_review_iterations >= 2
    /\ \E i \in DOMAIN messages :
          /\ messages[i].name = Code_Reviewer
          /\ AllRework(messages, i)
          /\ Reviews(messages, i) = max_review_iterations
          /\ i < Len(messages)
          /\ messages[i + 1].name = Tech_Writer

\* C2: every run that has started ends with initiate_workflow returning a
\* result, a success result if nothing raised in the chat; and where the ceiling
\* leaves room under the round limit the chat of a success result ended by the
\* selector returning None.
C2_RunTerminates == InChat ~> RunReturned

\* C2 witness: a run in which every review named FIX_REQUIRED has returned, and
\* the ceiling was reached.
C2_Witness ==
    /\ pc = "returned"
    /\ result.status = "success"
    /\ max_review_iterations >= 2
    /\ AllRework(messages, Len(messages))
    /\ Reviews(messages, Len(messages)) = max_review_iterations
    /\ next_agent = None

\* C3 as stated: the counter never exceeds the ceiling, whatever the ceiling.
C3_Original == review_iteration_count <= max_review_iterations

\* C3: the counter never exceeds the ceiling, except that under a ceiling below
\* 1 it reaches 1, on the forced advance after the first rework review.
C3_CounterBounded ==
    review_iteration_count <=
        (IF max_review_iterations >= 1 THEN max_review_iterations ELSE 1)

\* C3 witness: the counter stands at a ceiling N >= 2 after the forced advance.
C3_Witness ==
    /\ max_review_iterations >= 2
    /\ review_iteration_count = max_review_iterations
    /\ next_agent = Tech_Writer
    /\ pc = "reply"

\* C4 as stated: a success result reports as review_iterations the number of
\* reviews of its transcript that name FIX_REQUIRED, under every ceiling.
C4_Original ==
    (pc = "returned" /\ result.status = "success") =>
        result.review_iterations = ReworkReviews(messages, Len(messages))

\* C4: a success result whose transcript does not end with a review reports as
\* review_iterations the number of its reviews that name FIX_REQUIRED; under
\* the ceiling 5 with every review naming FIX_REQUIRED that number is 5.
C4_ReviewIterationsCount ==
    (pc = "returned" /\ result.status = "success") =>
        /\ messages[Len(messages)].name # Code_Reviewer =>
              result.review_iterations = ReworkReviews(messages, Len(messages))
        /\ (/\ max_review_iterations = DefaultCeiling
            /\ AllRework(messages, Len(messages))) =>
              result.review_iterations = DefaultCeiling

\* C4 witness: under the ceiling 5 a run of rework reviews has returned 5.
C4_Witness ==
    /\ pc = "returned"
    /\ result.status = "success"
    /\ max_review_iterations = DefaultCeiling
    /\ AllRework(messages, Len(messages))
    /\ result.review_iterations = DefaultCeiling
    /\ ReworkReviews(messages, Len(messages)) = DefaultCeiling

\* C5: asked after Admin_Proxy, the selector returns Product_Manager exactly
\* when no message of the transcript is by UX_Designer, and None otherwise.
C5_AdminStartOrEnd ==
    (Selected /\ last_speaker = Admin_Proxy) =>
        /\ next_agent = Product_Manager <=>
              ~(\E i \in DOMAIN messages : messages[i].name = UX_Designer)
        /\ (\E i \in DOMAIN messages : messages[i].name = UX_Designer) =>
              next_agent = None

\* C5 witness: after Admin_Proxy, with a message of UX_Designer that is not the
\* last one, the selector returned None.
C5_Witness ==
    /\ Selected
    /\ last_speaker = Admin_Proxy
    /\ Len(messages) = 2
    /\ messages[1].name = UX_Designer
    /\ messages[2].name = Admin_Proxy
    /\ next_agent = None

\* C6: asked after UX_Designer, the selector returns nothing but None, whatever
\* the transcript and the counter, and the chat is over with the transcript as
\* it was: no agent is invoked.
C6_UxDesignerEnds ==
    [][(pc = "select" /\ last_speaker = UX_Designer) =>
          /\ SelectorReturns => (next_agent' = None /\ pc' = "extract")
          /\ pc' # "reply"
          /\ messages' = messages]_vars

\* C6 witness: after UX_Designer, with a counter above 0 and a transcript that
\* holds no message of UX_Designer, the selector returned None.
C6_Witness ==
    /\ Selected
    /\ last_speaker = UX_Designer
    /\ review_iteration_count > 0
    /\ messages # <<>>
    /\ \A i \in DOMAIN messages : messages[i].name # UX_Designer
    /\ next_agent = None
    /\ pc = "extract"

\* C7: asked after a speaker that is none of the eight agents, the selector
\* returns None.
C7_UnknownSpeakerEnds ==
    (Selected /\ last_speaker \notin Agents) => (next_agent = None /\ pc = "extract")

\* C7 witness: the selector was asked after Unknown_Agent and returned None.
C7_Witness ==
    /\ Selected
    /\ last_speaker = Unknown_Agent
    /\ messages # <<>>
    /\ next_agent = None

\* C8: a chat that the selector ended reads Admin_Proxy, Product_Manager, one or
\* more pairs Python_Engineer, Code_Reviewer, then Tech_Writer, QA_Engineer,
\* DevOps_Engineer, UX_Designer; and Admin_Proxy is never the selected agent.
C8_TranscriptShape ==
    /\ next_agent # Admin_Proxy
    /\ (ChatOver /\ next_agent = None) =>
          LET n == Len(messages)
              k == (n - 6) \div 2
          IN /\ n >= 8
             /\ n = 2 * k + 6
             /\ messages[1].name = Admin_Proxy
             /\ messages[2].name = Product_Manager
             /\ \A j \in 1 .. k : /\ messages[2 * j + 1].name = Python_Engineer
                                  /\ messages[2 * j + 2].name = Code_Reviewer
             /\ messages[n - 3].name = Tech_Writer
             /\ messages[n - 2].name = QA_Engineer
             /\ messages[n - 1].name = DevOps_Engineer
             /\ messages[n].name = UX_Designer

\* C8 witness: a chat the selector ended, with two rounds of the review loop.
C8_Witness ==
    /\ ChatOver
    /\ next_agent = None
    /\ Len(messages) = 10
    /\ messages[10].name = UX_Designer

\* C9: asked after Code_Reviewer with a last message that names APPROVED and
\* not FIX_REQUIRED, the selector returns nothing but Tech_Writer and leaves
\* the counter.
C9_ApprovedAdvances ==
    [][(/\ pc = "select"
        /\ last_speaker = Code_Reviewer
        /\ Contains(APPROVED, LastMessage(messages))
        /\ ~Contains(FIX_REQUIRED, LastMessage(messages))) =>
          /\ SelectorReturns => next_agent' = Tech_Writer
          /\ review_iteration_count' = review_iteration_count]_vars

\* C9 witness: an approval was answered with Tech_Writer, the counter above 0.
C9_Witness ==
    /\ Selected
    /\ last_speaker = Code_Reviewer
    /\ LastMessage(messages) = <<APPROVED>>
    /\ next_agent = Tech_Writer
    /\ review_iteration_count > 0

\* C10: asked after Code_Reviewer with a last message that names neither
\* keyword, the selector returns Tech_Writer and leaves the counter.
C10_AmbiguousAdvances ==
    [][(/\ pc = "select"
        /\ last_speaker = Code_Reviewer
        /\ ~Contains(APPROVED, LastMessage(messages))
        /\ ~Contains(FIX_REQUIRED, LastMessage(messages))) =>
          /\ next_agent' = Tech_Writer
          /\ next_agent' \notin {Python_Engineer, None}
          /\ review_iteration_count' = review_iteration_count]_vars

\* C10 witness: a review without keyword was answered with Tech_Writer, the
\* counter above 0.
C10_Witness ==
    /\ Selected
    /\ last_speaker = Code_Reviewer
    /\ LastMessage(messages) = <<"text">>
    /\ next_agent = Tech_Writer
    /\ review_iteration_count > 0

\* C11: asked after Product_Manager, the selector leaves the counter at 0,
\* whatever it was, and returns nothing but Python_Engineer; asked after
\* Code_Reviewer it never lowers the counter, and a return of Python_Engineer
\* leaves it one higher than it was.
C11_LoopEntryResets ==
    [][/\ (pc = "select" /\ last_speaker = Product_Manager) =>
             /\ review_iteration_count' = 0
             /\ SelectorReturns => next_agent' = Python_Engineer
       /\ (pc = "select" /\ last_speaker = Code_Reviewer) =>
             /\ review_iteration_count' >= review_iteration_count
             /\ (SelectorReturns /\ next_agent' = Python_Engineer) =>
                   review_iteration_count' = review_iteration_count + 1]_vars

\* C11 witness: the second initiate_workflow call of an orchestrator has
\* entered the loop with the counter at 0, and the callback was told so.
C11_Witness ==
    /\ runs = 2
    /\ pc = "reply"
    /\ last_speaker = Product_Manager
    /\ next_agent = Python_Engineer
    /\ review_iteration_count = 0
    /\ progress = <<[agent |-> "python_engineer", action |-> "coding",
                     iteration |-> NoIteration]>>

\* C12: under every ceiling, the ceilings above the round limit included, the
\* transcript of a run never holds more than max_round messages, and a run
\* whose reviews all name FIX_REQUIRED is over when it holds max_round.
C12_RoundLimit ==
    /\ Len(messages) <= max_round
    /\ Len(messages) = max_round => ChatOver

\* C12 witness: under a ceiling above the round limit, with every review
\* naming FIX_REQUIRED, the chat ended at max_round messages, the last of them
\* a review the selector was never asked about.
C12_Witness ==
    /\ max_review_iterations > max_round
    /\ ChatOver
    /\ Len(messages) = max_round
    /\ AllRework(messages, Len(messages))
    /\ messages[max_round].name = Code_Reviewer
    /\ next_agent = Code_Reviewer
    /\ pc = "returned"
    /\ result.status = "success"
    /\ result.total_messages = max_round

\* C14: for every last speaker, transcript and counter, a selector call that
\* returns on an orchestrator with a progress callback returns the agent and
\* leaves the counter that the call without a callback does, whatever the
\* callback returns.
C14_CallbackObserves ==
    [][pc = "select" =>
          LET quiet == selector_call(last_speaker, messages,
                           review_iteration_count, max_review_iterations,
                           "absent", "returns None")
          IN /\ review_iteration_count' = quiet.count
             /\ SelectorReturns => next_agent' = quiet.next]_vars

\* C14 witness: the callback was told of a route-back and the selector
\* returned Python_Engineer with the counter raised.
C14_Witness ==
    /\ Selected
    /\ progress_callback = "present"
    /\ last_speaker = Code_Reviewer
    /\ next_agent = Python_Engineer
    /\ review_iteration_count > 1
    /\ progress = <<[agent |-> "python_engineer", action |-> "fixing",
                     iteration |-> review_iteration_count]>>

\* C15 as stated: an exception of the progress callback never leaves the
\* selector, so that no run ends with an error result because of it.
C15_Original ==
    ~(/\ pc = "returned"
      /\ exception.source = "callback"
      /\ result.status = "error")

\* C16: an initiate_workflow call with an empty or whitespace-only request
\* returns at once an error result with review_iterations 0, whatever the
\* counter stands at: no transcript is created, the selector and the progress
\* callback are not called, nothing is extracted and no test is run.
C16_EmptyRequestRejected ==
    [][(pc \in {"idle", "returned"} /\ IsBlank(user_request')) =>
          /\ pc' = "returned"
          /\ result'.status = "error"
          /\ result'.error = <<"User request cannot be empty">>
          /\ result'.review_iterations = 0
          /\ messages' = messages
          /\ next_agent' = next_agent
          /\ review_iteration_count' = review_iteration_count
          /\ progress' = <<>>
          /\ workspace' = workspace
          /\ files_extracted' = NotExtracted
          /\ test_calls' = 0]_vars

\* C16 witness: the second call on an orchestrator whose first run left the
\* counter above 0 was made with a whitespace-only request and has returned.
C16_Witness ==
    /\ runs = 2
    /\ pc = "returned"
    /\ user_request = <<" ">>
    /\ review_iteration_count > 0
    /\ result.status = "error"
    /\ result.review_iterations = 0
    /\ Len(messages) >= 8
    /\ test_calls = 0

\* C17: the phases of a run come in one order. While the chat runs nothing is
\* extracted and no test is run; extraction starts when the chat is over (the
\* selector returned None or the round limit stopped it) and the transcript
\* does not grow from then on; the test capability is called when extraction
\* has finished, exactly once, and never in a run whose chat raised; the result
\* is assembled after that call and reports what the two phases left.
C17_PhaseOrder ==
    [][/\ (pc' \in {"select", "reply"}) =>
             (files_extracted' = NotExtracted /\ test_calls' = 0)
       /\ (pc' = "extract") =>
             /\ pc \in {"select", "reply"}
             /\ next_agent' = None \/ Len(messages') = max_round
             /\ exception' = NoException
             /\ files_extracted' = NotExtracted
             /\ test_calls' = 0
       /\ (pc = "extract") =>
             /\ pc' = "test"
             /\ files_extracted' \in 0 .. Len(AllMatches(messages))
             /\ test_calls' = 0
       /\ (pc = "test") =>
             /\ pc' = "assemble"
             /\ test_calls' = 1
             /\ test_results' # NoTestResults
             /\ UNCHANGED <<workspace, files_extracted>>
       /\ (pc = "assemble") =>
             /\ pc' = "returned"
             /\ result'.status = "success"
             /\ result'.total_messages = Len(messages)
             /\ result'.files_extracted = files_extracted
             /\ result'.test_results = test_results
             /\ UNCHANGED postvars
       /\ (pc \in {"extract", "test", "assemble"}) => messages' = messages
       /\ (pc' = "returned" /\ result'.status = "success") =>
             (pc = "assemble" /\ test_calls' = 1)
       /\ (exception'.source \in {"stage", "callback"}) =>
             /\ pc' = "returned"
             /\ files_extracted' = NotExtracted
             /\ test_calls' = 0
             /\ test_results' = NoTestResults]_vars

\* C17 witness: a run has gone through all four phases: its chat was ended by
\* the selector, a file block was found and written, the test capability was
\* called once and the result reports it.
C17_Witness ==
    /\ pc = "returned"
    /\ result.status = "success"
    /\ next_agent = None
    /\ Len(AllMatches(messages)) = 1
    /\ files_extracted = 1
    /\ workspace[filepath("main.py")] = <<"code">>
    /\ test_calls = 1
    /\ result.test_results.status = "passed"

\* C18: when the test capability raised, the run goes on to its result: the
\* result is a success result, and its test_results is an aggregate of status
\* error with all four totals 0 and a message that holds the exception's
\* message.
C18_TestFailureReported ==
    (exception.source = "tests") =>
        /\ pc \in {"assemble", "returned"}
        /\ test_results.status = "error"
        /\ test_results.total_tests = 0
        /\ test_results.total_passed = 0
        /\ test_results.total_failed = 0
        /\ test_results.total_errors = 0
        /\ Contains(exception.msg, test_results.message)
        /\ (pc = "returned") =>
              (result.status = "success" /\ result.test_results = test_results)

\* C18 witness: a run whose chat wrote a file and whose test call raised has
\* returned a success result.
C18_Witness ==
    /\ pc = "returned"
    /\ exception.source = "tests"
    /\ files_extracted = 1
    /\ result.status = "success"
    /\ result.test_results.status = "error"
    /\ result.test_results.message = <<"Failed to execute tests: ", "pytest not found">>

\* C19 as stated: the error string of a run whose stage invocation raised holds
\* the type name and the message of the exception, for every kind.
C19_Original ==
    (pc = "returned" /\ exception.source = "stage") =>
        /\ result.status = "error"
        /\ Contains(exception.type, result.error)
        /\ Contains(exception.msg, result.error)

\* C19: a run whose stage invocation raised returns an error result whose error
\* string holds the message of the exception, for every kind; it starts with
\* the type name for a kind without a handler of its own, and with the label
\* of the handler, which is not the type name, for TimeoutError, ValueError
\* and ConnectionError.
C19_ErrorRecorded ==
    (pc = "returned" /\ exception.source = "stage") =>
        /\ result.status = "error"
        /\ result.review_iterations = review_iteration_count
        /\ Contains(exception.msg, result.error)
        /\ result.error[1] =
              CASE exception.type = "TimeoutError" -> "Workflow timed out: "
                [] exception.type = "ValueError" -> "Configuration error: "
                [] exception.type = "ConnectionError" -> "Connection error: "
                [] OTHER -> exception.type
        /\ Contains(exception.type, result.error) <=>
              exception.type \notin {"TimeoutError", "ValueError", "ConnectionError"}

\* C19 witness: Python_Engineer raised a ConnectionError in a run and the
\* result carries the label of its handler and the message.
C19_Witness ==
    /\ pc = "returned"
    /\ exception.source = "stage"
    /\ exception.type = "ConnectionError"
    /\ next_agent = Python_Engineer
    /\ result.status = "error"
    /\ result.error = <<"Connection error: ", "boom",
                        ". Please check your internet connection.">>

\* C20 as stated: a run returns an error result only if its request was empty
\* or a stage invocation raised.
C20_Original ==
    (pc = "returned" /\ result.status = "error") =>
        (IsBlank(user_request) \/ exception.source = "stage")

\* C21: a run that a KeyboardInterrupt ended, wherever in the try block it was
\* raised, has returned an error result that says so and carries the counter
\* as it stands.
C21_InterruptReturnsError ==
    (exception.source = "interrupt") =>
        /\ pc = "returned"
        /\ result.status = "error"
        /\ result.error = <<"Workflow was interrupted by user">>
        /\ result.review_iterations = review_iteration_count

\* C21 witness: a run with two rework rounds was interrupted in the test call,
\* behind the extraction, and returned an error result with the counter 2.
C21_Witness ==
    /\ pc = "returned"
    /\ exception.source = "interrupt"
    /\ files_extracted >= 0
    /\ test_calls = 0
    /\ review_iteration_count = 2
    /\ result.status = "error"
    /\ result.review_iterations = 2

\* C22: the review_iterations a returned run reports depend on its own
\* transcript alone: they never exceed the number of reviews in that
\* transcript that ask for rework, whatever an earlier run left behind.
C22_Original ==
    (pc = "returned" /\ ~IsBlank(user_request)
                     /\ "review_iterations" \in DOMAIN result) =>
        result.review_iterations <= ReworkReviews(messages, Len(messages))

\* entry content holds a delimited block: a BEGIN_FILE line and, somewhere
\* behind it, an END_FILE line
HasDelimitedBlock(content) ==
    \E i, j \in 1 .. Len(content) :
       i < j /\ IsBeginFile(content[i]) /\ content[j] = END_FILE

\* no entry of the transcript holds a delimited block
NoDelimitedBlock(msgs) ==
    \A k \in 1 .. Len(msgs) : ~HasDelimitedBlock(msgs[k].content)

\* C23: a run that went through the extraction with a transcript that holds no
\* delimited block has extracted 0 files, and it returns status success with
\* files_extracted 0.
C23_NoBlockSucceeds ==
    (files_extracted # NotExtracted /\ NoDelimitedBlock(messages)) =>
        /\ files_extracted = 0
        /\ extract_warnings = {}
        /\ pc = "returned" =>
              (result.status = "success" /\ result.files_extracted = 0)

\* C23 witness: a run whose six stages all spoke without a block has returned
\* success with no file extracted.
C23_Witness ==
    /\ pc = "returned"
    /\ runs = 1
    /\ Len(messages) >= 7
    /\ NoDelimitedBlock(messages)
    /\ result.status = "success"
    /\ result.files_extracted = 0

\* entry content holds a block with nothing between its two markers
HasEmptyBlock(content) ==
    \E i \in 1 .. Len(content) - 1 :
       IsBeginFile(content[i]) /\ content[i + 1] = END_FILE

\* file content holds a BEGIN_FILE line
HoldsBeginMarker(content) ==
    \E i \in 1 .. Len(content) : IsBeginFile(content[i])

\* C24: after the extraction of a transcript whose blocks all have a body, no
\* file that was written holds the BEGIN_FILE line of a block, also when a
\* BEGIN_FILE line without END_FILE line stands in front of a well-formed
\* block of the same entry.
C24_Original ==
    (pc = "test" /\ \A k \in 1 .. Len(messages) :
                       ~HasEmptyBlock(messages[k].content)) =>
        \A location \in Locations :
           workspace[location] # Absent => ~HoldsBeginMarker(workspace[location])

\* the positions <<entry, line>> of the BEGIN_FILE lines of a transcript
BeginPositions(msgs) ==
    UNION {{<<k, i>> : i \in {j \in 1 .. Len(msgs[k].content) :
                                  IsBeginFile(msgs[k].content[j])}} :
              k \in 1 .. Len(msgs)}

\* position p is position q or stands in front of it in transcript order
NotBehind(p, q) == p[1] < q[1] \/ (p[1] = q[1] /\ p[2] <= q[2])

\* the END_FILE lines of the entry behind position p
EndsBehind(msgs, p) ==
    {j \in (p[2] + 1) .. Len(msgs[p[1]].content) :
        msgs[p[1]].content[j] = END_FILE}

\* every BEGIN_FILE line opens a block with a body: an END_FILE line follows
\* it, with at least one line and no other marker in between
AllWellFormed(msgs) ==
    \A p \in BeginPositions(msgs) :
       /\ EndsBehind(msgs, p) # {}
       /\ Min(EndsBehind(msgs, p)) > p[2] + 1
       /\ \A q \in BeginPositions(msgs) :
             q[1] = p[1] => (q[2] <= p[2] \/ q[2] > Min(EndsBehind(msgs, p)))

\* the name and the body of the block that the BEGIN_FILE line at p opens
NameAt(msgs, p) == FileNameOf(msgs[p[1]].content[p[2]])

BodyAt(msgs, p) ==
    SubSeq(msgs[p[1]].content, p[2] + 1, Min(EndsBehind(msgs, p)) - 1)

\* the block at p is the n-th of the transcript
Ordinal(msgs, p) == Cardinality({q \in BeginPositions(msgs) : NotBehind(q, p)})

\* the block at p is the last of its name whose write did not raise
LastWrittenOfName(msgs, p) ==
    /\ Ordinal(msgs, p) \notin extract_warnings
    /\ \A q \in BeginPositions(msgs) :
          (NameAt(msgs, q) = NameAt(msgs, p)
              /\ Ordinal(msgs, q) \notin extract_warnings) => NotBehind(q, p)

\* some match of this name was written
WasWritten(matches, filename) ==
    \E k \in (1 .. Len(matches)) \ extract_warnings :
       matches[k].filename = filename

\* the last match of the name whose write did not raise
LastWritten(matches, filename) ==
    matches[Max({k \in (1 .. Len(matches)) \ extract_warnings :
                    matches[k].filename = filename})]

\* C25: after the extraction the file of a name holds the stripped body of
\* the last block of that name whose write did not raise, for every
\* transcript; in a transcript of well-formed blocks that is the block behind
\* the last BEGIN_FILE line of the name, in a later entry or further down in
\* the same entry than every other block of the name.
C25_LastBlockWins ==
    pc = "test" =>
       /\ \E matches \in {AllMatches(messages)} :
             \A filename \in FileNames :
                WasWritten(matches, filename) =>
                   workspace[filepath(filename)] =
                      Strip(LastWritten(matches, filename).file_content)
       /\ AllWellFormed(messages) =>
             \A p \in BeginPositions(messages) :
                LastWrittenOfName(messages, p) =>
                   workspace[filepath(NameAt(messages, p))] =
                      Strip(BodyAt(messages, p))

\* C25 witness: two entries each hold a block main.py with different bodies,
\* and the file holds the body of the block in the later entry.
C25_Witness ==
    /\ pc = "test"
    /\ Len(messages) = 2
    /\ AllWellFormed(messages)
    /\ BeginPositions(messages) = {<<1, 1>>, <<2, 1>>}
    /\ NameAt(messages, <<1, 1>>) = "main.py"
    /\ NameAt(messages, <<2, 1>>) = "main.py"
    /\ BodyAt(messages, <<1, 1>>) = IndentedBody
    /\ BodyAt(messages, <<2, 1>>) = PlainBody
    /\ extract_warnings = {}
    /\ workspace[filepath("main.py")] = PlainBody

\* C26: after the extraction of a transcript of well-formed blocks in which
\* some writes raised, files_extracted is the number of blocks whose write did
\* not raise, the file of each of those blocks is there, whether the block
\* stands in front of or behind a failed one, in the same entry or another,
\* and a block whose write raised has a file only if another block of its
\* name was written.
C26_FailureIsolated ==
    (pc = "test" /\ AllWellFormed(messages)) =>
        /\ extract_warnings \subseteq 1 .. Cardinality(BeginPositions(messages))
        /\ files_extracted =
              Cardinality(BeginPositions(messages)) - Cardinality(extract_warnings)
        /\ \A p \in BeginPositions(messages) :
              LET location == filepath(NameAt(messages, p))
              IN IF Ordinal(messages, p) \in extract_warnings
                 THEN workspace[location] # Absent =>
                         \E q \in BeginPositions(messages) :
                            /\ NameAt(messages, q) = NameAt(messages, p)
                            /\ Ordinal(messages, q) \notin extract_warnings
                 ELSE workspace[location] # Absent

\* C26 witness: one entry holds three blocks, the write of the first raised,
\* and the two blocks behind it are written and counted.
C26_Witness ==
    /\ pc = "test"
    /\ Len(messages) = 1
    /\ AllWellFormed(messages)
    /\ Cardinality(BeginPositions(messages)) = 3
    /\ extract_warnings = {1}
    /\ files_extracted = 2
    /\ workspace[filepath("main.py")] = PlainBody
    /\ workspace[filepath("/tmp/evil.py")] = PlainBody

\* the blocks of a transcript: a BEGIN_FILE line, then lines that are no
\* markers, then an END_FILE line
WellFormedBlocks(msgs) ==
    {p \in BeginPositions(msgs) :
        /\ EndsBehind(msgs, p) # {}
        /\ \A q \in BeginPositions(msgs) :
              q[1] = p[1] => (q[2] <= p[2] \/ q[2] > Min(EndsBehind(msgs, p)))}

\* C27: after an extraction in which no write raised, files_extracted is the
\* number of well-formed blocks of the transcript, each counted once.
C27_Original ==
    (pc = "test" /\ extract_warnings = {}) =>
        files_extracted = Cardinality(WellFormedBlocks(messages))

\* C28: after the extraction of a transcript of well-formed blocks, a block
\* named sub/file.py, whose directory the workspace does not hold yet, is
\* written to its file and counted.
C28_Original ==
    (pc = "test" /\ AllWellFormed(messages)) =>
        \A p \in BeginPositions(messages) :
           NameAt(messages, p) = "sub/file.py" =>
              /\ workspace[filepath("sub/file.py")] # Absent
              /\ files_extracted >= 1

\* C29: every file the extraction has written lies under the workspace root,
\* whatever the names of the blocks are.
C29_Original ==
    \A location \in Locations :
       workspace[location] # Absent => InWorkspace(location)

\* a body without the blank lines at its two ends, every other line as it is
WithoutBlankEnds(body) ==
    LET solid == {i \in DOMAIN body : ~IsBlankLine(body[i])}
    IN IF solid = {} THEN <<>> ELSE SubSeq(body, Min(solid), Max(solid))

\* C30: after the extraction of a transcript of well-formed blocks, the file
\* of a block that was written and not replaced holds the body of the block
\* without the blank lines at its ends, the indentation of every line kept,
\* that of the first line that is not blank included.
C30_Original ==
    (pc = "test" /\ AllWellFormed(messages)) =>
        \A p \in BeginPositions(messages) :
           LastWrittenOfName(messages, p) =>
              workspace[filepath(NameAt(messages, p))] =
                 WithoutBlankEnds(BodyAt(messages, p))

\* C31: a second extraction of the unchanged transcript leaves every file and
\* files_extracted as the first extraction left them.
C31_ExtractionIdempotent ==
    [][(pc = "test" /\ pc' = "extracted twice") =>
          /\ messages' = messages
          /\ workspace' = workspace
          /\ files_extracted' = files_extracted
          /\ extract_warnings' = extract_warnings]_vars

\* C31 witness: a transcript with two blocks main.py of different bodies and a
\* block that cannot be written was extracted twice; the file holds the later
\* body and two files are counted.
C31_Witness ==
    /\ pc = "extracted twice"
    /\ Len(AllMatches(messages)) = 3
    /\ extract_warnings # {}
    /\ files_extracted = 2
    /\ workspace[filepath("main.py")] = PlainBody
    /\ \E matches \in {AllMatches(messages)} :
          \E j, k \in 1 .. Len(matches) :
             /\ j < k
             /\ matches[j].filename = "main.py"
             /\ matches[k].filename = "main.py"
             /\ matches[j].file_content = IndentedBody
             /\ matches[k].file_content = PlainBody

\* the key of an agent in self.agents, which the callback is told
StageIdentifier(agent) ==
    CASE agent = Product_Manager -> "product_manager"
      [] agent = Python_Engineer -> "python_engineer"
      [] agent = Code_Reviewer -> "code_reviewer"
      [] agent = Tech_Writer -> "tech_writer"
      [] agent = QA_Engineer -> "qa_engineer"
      [] agent = DevOps_Engineer -> "devops_engineer"
      [] agent = UX_Designer -> "ux_designer"
      [] OTHER -> "none"

\* C32: on an orchestrator with a progress callback, a selector call that
\* returned a next stage has told the callback once, and told it that stage,
\* whichever branch returned it.
C32_Original ==
    (pc = "reply" /\ progress_callback = "present") =>
        /\ Len(progress) = 1
        /\ progress[1].agent = StageIdentifier(next_agent)

\* the transcript with the content of its last message replaced
WithLastContent(msgs, content) ==
    [msgs EXCEPT ![Len(msgs)] = [@ EXCEPT !.content = content]]

\* C33: asked after Code_Reviewer with a last message that names both
\* keywords, the selector adds 1 to the counter and returns Python_Engineer,
\* or Tech_Writer when the counter has come to the ceiling: the counter, the
\* agent and the call of the callback are those of the same call with a last
\* message that names FIX_REQUIRED alone.
C33_ReworkTakesPrecedence ==
    [][(/\ pc = "select"
        /\ last_speaker = Code_Reviewer
        /\ Contains(FIX_REQUIRED, LastMessage(messages))
        /\ Contains(APPROVED, LastMessage(messages))) =>
          /\ review_iteration_count' = review_iteration_count + 1
          /\ SelectorReturns =>
                next_agent' = IF review_iteration_count + 1 >= max_review_iterations
                              THEN Tech_Writer ELSE Python_Engineer
          /\ \E outcome \in CallbackOutcomes :
                LET alone == selector_call(last_speaker,
                                 WithLastContent(messages, <<FIX_REQUIRED>>),
                                 review_iteration_count, max_review_iterations,
                                 progress_callback, outcome)
                IN /\ review_iteration_count' = alone.count
                   /\ progress' = alone.calls
                   /\ SelectorReturns => next_agent' = alone.next]_vars

\* C33 witness: a review that names both keywords was answered with
\* Python_Engineer, the counter raised to 2 under a ceiling of 3.
C33_Witness ==
    /\ Selected
    /\ last_speaker = Code_Reviewer
    /\ LastMessage(messages) = <<APPROVED, FIX_REQUIRED>>
    /\ max_review_iterations = 3
    /\ review_iteration_count = 2
    /\ next_agent = Python_Engineer

\* the review at message i approves, names no keyword, or is the rework
\* signal that brought the counter to the ceiling: the counter behind message
\* i is that of the running state when i is the last message
Advances(i) ==
    \/ ~Contains(FIX_REQUIRED, messages[i].content)
    \/ /\ i = Len(messages)
       /\ review_iteration_count >= max_review_iterations

\* C34: whenever the selector has chosen Tech_Writer, the last message is a
\* review that approves, names no keyword, or is a rework signal with the
\* counter at or above the ceiling; Tech_Writer never speaks but behind a
\* review without rework signal or behind the rework review that reached the
\* ceiling; and after every output of Python_Engineer the selector chooses
\* Code_Reviewer and nothing else.
C34_ReviewGate ==
    /\ (pc = "reply" /\ next_agent = Tech_Writer) =>
          /\ last_speaker = Code_Reviewer
          /\ messages[Len(messages)].name = Code_Reviewer
          /\ Advances(Len(messages))
    /\ \A i \in 2 .. Len(messages) :
          messages[i].name = Tech_Writer =>
             /\ messages[i - 1].name = Code_Reviewer
             /\ \/ ~Contains(FIX_REQUIRED, messages[i - 1].content)
                \/ ReworkReviews(messages, i - 1) >=
                      (IF max_review_iterations < 1 THEN 1
                       ELSE max_review_iterations)
    /\ \A i \in DOMAIN messages :
          (messages[i].name = Python_Engineer /\ Decided(i)) =>
             ChosenAfter(i) = Code_Reviewer
    /\ \A i \in DOMAIN messages :
          messages[i].name \in {QA_Engineer, DevOps_Engineer, UX_Designer} =>
             \E j \in 1 .. i - 1 : messages[j].name = Tech_Writer

\* C34 witness: Tech_Writer was selected behind the rework review that brought
\* the counter to a ceiling of 2, after two engineer outputs that were each
\* reviewed.
C34_Witness ==
    /\ pc = "reply"
    /\ next_agent = Tech_Writer
    /\ max_review_iterations = 2
    /\ review_iteration_count = 2
    /\ Len(messages) = 6
    /\ messages[3].name = Python_Engineer
    /\ messages[4].name = Code_Reviewer
    /\ messages[5].name = Python_Engineer
    /\ messages[6].name = Code_Reviewer
    /\ Contains(FIX_REQUIRED, messages[6].content)

\* C35: under a ceiling N >= 1 the transcript of a run never holds more than
\* 2N + 6 messages; under the default ceiling 5 it never holds more than 16,
\* the chat of a run that did not end in an error was ended by the selector
\* well below the round limit, and its last speaker is UX_Designer.
C35_TranscriptBound ==
    /\ max_review_iterations >= 1 =>
          Len(messages) <= 2 * max_review_iterations + 6
    /\ max_review_iterations = DefaultCeiling =>
          /\ Len(messages) <= 16
          /\ Len(messages) < max_round
          /\ (ChatOver /\ ~IsBlank(user_request) /\ exception.source # "stage"
                       /\ exception.source # "callback") =>
                /\ next_agent = None
                /\ last_speaker = UX_Designer
                /\ messages[Len(messages)].name = UX_Designer
          /\ (pc = "returned" /\ result.status = "success") =>
                /\ result.total_messages <= 16
                /\ messages[result.total_messages].name = UX_Designer

\* C35 witness: under the default ceiling a run whose five reviews all named
\* FIX_REQUIRED has returned success with 16 messages, the last by UX_Designer.
C35_Witness ==
    /\ pc = "returned"
    /\ result.status = "success"
    /\ max_review_iterations = DefaultCeiling
    /\ Len(messages) = 16
    /\ ReworkReviews(messages, 16) = 5
    /\ messages[16].name = UX_Designer

\* C36: a call of the selector sets the counter to 0 when the last speaker is
\* Product_Manager, adds 1 to it when the last speaker is Code_Reviewer and
\* the last message names FIX_REQUIRED, and leaves it as it is for every other
\* last speaker, one of the agents or not; and it leaves the transcript as it
\* is, whether it returns or the callback raises.
C36_CounterFrame ==
    [][pc = "select" =>
          /\ messages' = messages
          /\ review_iteration_count' =
                IF last_speaker = Product_Manager THEN 0
                ELSE IF /\ last_speaker = Code_Reviewer
                        /\ Contains(FIX_REQUIRED, LastMessage(messages))
                     THEN review_iteration_count + 1
                     ELSE review_iteration_count]_vars

\* C36 witness: the selector was called after an unknown speaker with a last
\* message that names FIX_REQUIRED and a counter of 2, and left both the
\* counter and the transcript.
C36_Witness ==
    /\ Selected
    /\ last_speaker = Unknown_Agent
    /\ Len(messages) = 2
    /\ LastMessage(messages) = <<FIX_REQUIRED>>
    /\ review_iteration_count = 2

\* the fields every test aggregate has
AggregateFields ==
    {"status", "total_tests", "total_passed", "total_failed", "total_errors"}

====
